---- MODULE Spec2Model ----
(***************************************************************************)
(* Model of the queue-with-background + webhook-callback demo application  *)
(* (app.py / api/index.py, which are the same handlers, and                *)
(* api/openai_client.py).                                                  *)
(*                                                                         *)
(* Python text (str) is a sequence of one-character strings, so that       *)
(* strip, rstrip, startswith, slicing, concatenation and f-string          *)
(* formatting are computed as the code computes them.  Python values that  *)
(* come out of JSON are tagged records (PyNone, PyStr, PyNum, PyList,      *)
(* PyDict).  A Python dict with string keys is a TLA+ record whose DOMAIN  *)
(* is the set of keys present.                                             *)
(***************************************************************************)
EXTENDS Integers, Sequences, FiniteSets, TLC

VARIABLES
    api_key,         \* OpenAIClient.api_key        (os.getenv, fixed at import)
    webhook_secret,  \* OpenAIClient.webhook_secret (os.getenv, fixed at import)
    pyhash,          \* the process's str hash (fixed by PYTHONHASHSEED at start)
    task_storage,    \* the module-level dict: task id -> record
    inflight,        \* queue_task coroutines suspended in the upstream await
    sims,            \* simulate_webhook_callback coroutines asleep, in timer order
    now,             \* asyncio.get_event_loop().time()
    nsub,            \* number of submissions that got past validation
    api_calls,       \* number of chat.completions.create calls made
    nhooks,          \* number of webhook deliveries answered 200
    polling,         \* task ids a browser holds a polling element for
    accepted,        \* number of submissions whose record was stored
    scheduled,       \* number of asyncio.create_task calls made
    last             \* the handler step taken last and what it answered

vars == <<api_key, webhook_secret, pyhash, task_storage, inflight, sims, now,
          nsub, api_calls, nhooks, polling, accepted, scheduled, last>>

----------------------------------------------------------------------------
(* Bounds of the model.                                                    *)

\* submissions that reach the upstream call, over the whole run
MaxSubmissions == 2
\* the clock may always advance up to here (and further while a timer is pending)
MaxTime == 0
\* webhook deliveries answered 200, over the whole run
MaxWebhooks == 1

(* Program constants.                                                      *)

\* hash(...) % 1000000
HashModulus == 1000000
\* await asyncio.sleep(4)
SleepSeconds == 4
\* signature[7:]
PrefixLen == 7

----------------------------------------------------------------------------
(* Python values.                                                          *)

PyNone == [t |-> "none"]
PyStr(s) == [t |-> "str", v |-> s]
PyNum(n) == [t |-> "num", v |-> n]
PyList(l) == [t |-> "list", v |-> l]
PyDict(d) == [t |-> "dict", v |-> d]

\* bool(x) as `not x` / `if x` evaluate it
Truthy(x) ==
    CASE x.t = "none" -> FALSE
      [] x.t = "str"  -> x.v # <<>>
      [] x.t = "num"  -> x.v # 0
      [] x.t = "list" -> x.v # <<>>
      [] x.t = "dict" -> DOMAIN x.v # {}

\* only dicts have .get; anything else raises AttributeError
HasGet(x) == x.t = "dict"

\* d.get(k, default) for a dict d
DictGet(x, k, default) == IF k \in DOMAIN x.v THEN x.v[k] ELSE default

\* lists and dicts are unhashable: `x in some_dict` raises TypeError
Hashable(x) == x.t \notin {"list", "dict"}

\* dict.update on a record
DictUpdate(rec, upd) ==
    [k \in DOMAIN rec \cup DOMAIN upd |-> IF k \in DOMAIN upd THEN upd[k] ELSE rec[k]]

----------------------------------------------------------------------------
(* Text.                                                                   *)

IsSpace(c) == c \in {" ", "\t", "\n", "\r"}

RECURSIVE LStrip(_)
LStrip(s) == IF s # <<>> /\ IsSpace(Head(s)) THEN LStrip(Tail(s)) ELSE s

RECURSIVE RStrip(_)
RStrip(s) ==
    IF s # <<>> /\ IsSpace(s[Len(s)]) THEN RStrip(SubSeq(s, 1, Len(s) - 1)) ELSE s

\* str.strip()
Strip(s) == RStrip(LStrip(s))

\* str.rstrip(ch)
RECURSIVE RStripChar(_, _)
RStripChar(s, ch) ==
    IF s # <<>> /\ s[Len(s)] = ch THEN RStripChar(SubSeq(s, 1, Len(s) - 1), ch) ELSE s

StartsWith(s, p) == Len(s) >= Len(p) /\ SubSeq(s, 1, Len(p)) = p

DigitChar(d) == <<"0", "1", "2", "3", "4", "5", "6", "7", "8", "9">>[d + 1]

\* str(n) for n >= 0
RECURSIVE DecStr(_)
DecStr(n) == IF n < 10 THEN <<DigitChar(n)>> ELSE DecStr(n \div 10) \o <<DigitChar(n % 10)>>

RespPrefix == <<"r", "e", "s", "p", "_">>
WebhookPath == <<"/", "a", "p", "i", "/", "w", "e", "b", "h", "o", "o", "k">>
Sha256Prefix == <<"s", "h", "a", "2", "5", "6", "=">>
ResponseCompleted ==
    <<"r", "e", "s", "p", "o", "n", "s", "e", ".", "c", "o", "m", "p", "l", "e", "t", "e", "d">>
ResponseFailed ==
    <<"r", "e", "s", "p", "o", "n", "s", "e", ".", "f", "a", "i", "l", "e", "d">>
UnknownError ==
    <<"U", "n", "k", "n", "o", "w", "n", " ", "e", "r", "r", "o", "r">>

----------------------------------------------------------------------------
(* Request bodies and signature headers.                                   *)
(*                                                                         *)
(* A body is the raw bytes of a request, described by what decoding makes  *)
(* of them: enc = "empty" (b""), "bad_utf8" (decode raises), "text" (valid *)
(* UTF-8 that json.loads rejects) or "json" (json.loads returns doc).      *)
(*                                                                         *)
(* HMAC-SHA256 is an injective abstract function of (key, message).  A     *)
(* header value is the text `text` followed by the hex digits of `hex`     *)
(* (NoHex: nothing follows).  No hex digit string starts with "=", so      *)
(* whether a header starts with "sha256=" is decided by `text` alone.      *)

EmptyBody == [enc |-> "empty", doc |-> PyNone]
BadUtf8Body == [enc |-> "bad_utf8", doc |-> PyNone]
NonJsonBody == [enc |-> "text", doc |-> PyNone]
JsonBody(doc) == [enc |-> "json", doc |-> doc]

NoHex == [t |-> "none"]
\* hmac.new(key, msg, hashlib.sha256).hexdigest()
HexDigest(key, msg) == [t |-> "hmac", key |-> key, msg |-> msg]

Header(text, hex) == [text |-> text, hex |-> hex]
NoHeader == Header(<<>>, NoHex)
\* signature[n:], for a header whose text has at least n characters
HeaderSlice(sig, n) == Header(SubSeq(sig.text, n + 1, Len(sig.text)), sig.hex)

----------------------------------------------------------------------------
(* api/openai_client.py                                                    *)

\* a slip: only the API key is required
EnsureClientOkKeyOnly == Truthy(api_key)

\* _ensure_client: raises ValueError unless both credentials are set
EnsureClientOk == Truthy(api_key) /\ Truthy(webhook_secret)

\* response_id = f"resp_{hash(prompt + webhook_url) % 1000000}"
ResponseId(prompt, webhook_url) ==
    RespPrefix \o DecStr(pyhash[prompt \o webhook_url] % HashModulus)

\* a slip: the digest is compared without regard to the key it was made with
VerifyWebhookSignatureAnyKey(payload, signature) ==
    IF signature = NoHeader \/ payload.enc = "empty" THEN FALSE
    ELSE IF ~StartsWith(signature.text, Sha256Prefix) THEN FALSE
    ELSE IF webhook_secret.t # "str" THEN FALSE
    ELSE /\ HeaderSlice(signature, PrefixLen).text = <<>>
         /\ signature.hex # NoHex
         /\ signature.hex.msg = payload

\* verify_webhook_signature(payload, signature)
VerifyWebhookSignature(payload, signature) ==
    IF signature = NoHeader \/ payload.enc = "empty" THEN FALSE
    ELSE IF ~StartsWith(signature.text, Sha256Prefix) THEN FALSE
    \* None.encode raises AttributeError, which the except clause turns into False
    ELSE IF webhook_secret.t # "str" THEN FALSE
    ELSE HeaderSlice(signature, PrefixLen)
             = Header(<<>>, HexDigest(webhook_secret.v, payload))

\* parse_webhook_payload(payload): json.loads(payload.decode('utf-8')), or None
ParseWebhookPayload(payload) ==
    IF payload.enc = "json" THEN payload.doc ELSE PyNone

----------------------------------------------------------------------------
(* Inputs.                                                                 *)

\* the "prompt" form field as submitted (<<>>: the field is missing or empty)
Forms == {<<>>, <<" ", "\n">>, <<" ", "p", "\n">>, <<"q", "q">>}

\* str(request.base_url)
BaseUrls == {<<"u", "/">>}

\* webhook_url = f"{base_url}/api/webhook" with base_url = str(...).rstrip('/')
WebhookUrl(base) == RStripChar(base, "/") \o WebhookPath

\* the strings the process may ever hash
HashInputs ==
    {Strip(f) \o WebhookUrl(b) : f \in {g \in Forms : Strip(g) # <<>>}, b \in BaseUrls}

\* values of hash(): 64-bit signed integers, three of them, two of which agree
\* modulo HashModulus
HashValues == {-999993, 7, 12}

\* the process's hash function, up to renaming of the inputs: distinct hashes
\* with distinct residues, distinct hashes with one residue
HashFunctions ==
    {h \in [HashInputs -> HashValues] :
        \E a, b \in HashInputs :
            /\ HashInputs = {a, b}
            /\ Len(a) < Len(b)
            /\ <<h[a], h[b]>> \in {<<-999993, 12>>, <<-999993, 7>>}}

\* response.choices[0].message.content
Contents == {PyStr(<<"x">>), PyStr(<<"y">>)}

\* task ids the process can generate, and one it cannot
GeneratedIds == {RespPrefix \o DecStr(h % HashModulus) : h \in HashValues}
ForeignId == RespPrefix \o <<"1">>
TaskIds == GeneratedIds \cup {ForeignId}

\* what a webhook document may carry under "output" and "error"
OutputVals == {PyNone, PyDict([text |-> PyStr(<<"w">>)])}
ErrorVals == {PyNone, PyDict([message |-> PyStr(<<"m">>)])}

\* the rest of a document: a recognised "type" with the field that event
\* expects absent, not an object, or as expected; an unrecognised "type"; none
CompletedParts ==
    {[type |-> PyStr(ResponseCompleted)]}
        \cup {[type |-> PyStr(ResponseCompleted), output |-> o] : o \in OutputVals}
FailedParts ==
    {[type |-> PyStr(ResponseFailed)]}
        \cup {[type |-> PyStr(ResponseFailed), error |-> e] : e \in ErrorVals}
OtherParts == {<<>>, [type |-> PyStr(<<"t">>)]}

\* the JSON objects: every part for every task id; and objects whose "id" is
\* missing, empty or unhashable
DictDocs ==
    {[id |-> PyStr(i)] @@ r :
        i \in TaskIds, r \in CompletedParts \cup FailedParts \cup OtherParts}
        \cup {<<>>,
              [type |-> PyStr(ResponseCompleted)],
              [id |-> PyStr(<<>>), type |-> PyStr(ResponseCompleted)],
              [id |-> PyNum(7), type |-> PyStr(ResponseCompleted)],
              [id |-> PyList(<<PyNum(1)>>), type |-> PyStr(ResponseCompleted)]}

JsonDocs ==
    {PyNone, PyList(<<>>), PyList(<<PyNum(1)>>)} \cup {PyDict(d) : d \in DictDocs}

Bodies == {EmptyBody, BadUtf8Body, NonJsonBody} \cup {JsonBody(d) : d \in JsonDocs}

\* a key that is not the configured secret
OtherKey == <<"z">>

\* the key the sender signs with: the configured secret when there is one
SenderKey == IF webhook_secret.t = "str" THEN webhook_secret.v ELSE <<>>

\* the X-OpenAI-Signature value of a sender that knows the configured secret
Signed(body) == Header(Sha256Prefix, HexDigest(SenderKey, body))

\* header values that are not that: no header, a signature under another key,
\* the right digest without the prefix
Forgeries == {"no_header", "other_key", "no_prefix"}
Forged(how, body) ==
    CASE how = "no_header" -> NoHeader
      [] how = "other_key" -> Header(Sha256Prefix, HexDigest(OtherKey, body))
      [] how = "no_prefix" -> Header(<<>>, HexDigest(SenderKey, body))

\* the bodies tried with a bad signature: ones that would change a record if
\* they were accepted, and ones that would not parse
ForgedBodies ==
    {EmptyBody, NonJsonBody}
        \cup {JsonBody(PyDict([id |-> PyStr(i), type |-> PyStr(ResponseCompleted),
                               output |-> PyDict([text |-> PyStr(<<"w">>)])])) : i \in GeneratedIds}
        \cup {JsonBody(PyDict([id |-> PyStr(i), type |-> PyStr(ResponseFailed),
                               error |-> PyDict([message |-> PyStr(<<"m">>)])])) : i \in GeneratedIds}

----------------------------------------------------------------------------
(* app.py, api/index.py: the handlers.                                     *)

\* what a handler step answered: the handler, the HTTP status code, which
\* branch returned, and the task id the step was about (<<>>: none)
Reply(op, code, kind, task) == [op |-> op, code |-> code, kind |-> kind, task |-> task]

\* a slip: the record takes the status of the upstream response ("queued")
InitialRecordQueued(task_id, prompt, webhook_url) ==
    [id |-> task_id, prompt |-> prompt, status |-> "queued",
     output |-> PyNone, created_at |-> now, webhook_url |-> webhook_url]

\* the record queue_task stores
InitialRecord(task_id, prompt, webhook_url) ==
    [id |-> task_id, prompt |-> prompt, status |-> "processing",
     output |-> PyNone, created_at |-> now, webhook_url |-> webhook_url]

\* a slip: the update leaves the status out
SimulatedUpdateNoStatus(content) ==
    [output |-> content, completed_at |-> now]

\* a slip: the update leaves the output out
SimulatedUpdateNoOutput(content) ==
    [status |-> "completed", completed_at |-> now]

\* the update simulate_webhook_callback applies
SimulatedUpdate(content) ==
    [status |-> "completed", output |-> content, completed_at |-> now]

\* a slip: the completion time is left out
CompletedUpdateNoTime(output_text) ==
    [status |-> "completed", output |-> output_text]

\* the update of the response.completed branch
CompletedUpdate(output_text) ==
    [status |-> "completed", output |-> output_text, completed_at |-> now]

\* a slip: the failure also resets the output
FailedUpdateClearsOutput(error_message) ==
    [status |-> "failed", output |-> PyNone, error |-> error_message, completed_at |-> now]

\* a slip: the failure is recorded without its error
FailedUpdateNoError(error_message) ==
    [status |-> "failed", completed_at |-> now]

\* the update of the response.failed branch
FailedUpdate(error_message) ==
    [status |-> "failed", error |-> error_message, completed_at |-> now]

\* a slip: the update is applied to a copy of the record taken when it was
\* created, and the copy is written back
StorageUpdateStale(storage, task_id, upd) ==
    LET rec == storage[task_id]
        copy == [k \in DOMAIN rec \ {"error", "completed_at"} |->
                    CASE k = "status" -> "processing"
                      [] k = "output" -> PyNone
                      [] OTHER -> rec[k]]
    IN  [storage EXCEPT ![task_id] = DictUpdate(copy, upd)]

\* a slip: the update reaches every record of the registry
StorageUpdateAll(storage, task_id, upd) ==
    [k \in DOMAIN storage |-> DictUpdate(storage[k], upd)]

\* task_storage[task_id].update(upd)
StorageUpdate(storage, task_id, upd) ==
    [storage EXCEPT ![task_id] = DictUpdate(storage[task_id], upd)]

\* a slip: the record is stored under its prompt
StorageSetByPrompt(storage, task_id, rec) ==
    [k \in DOMAIN storage \cup {rec.prompt} |-> IF k = rec.prompt THEN rec ELSE storage[k]]

\* a slip: the registry is started afresh with every stored record
StorageSetFresh(storage, task_id, rec) == [k \in {task_id} |-> rec]

\* task_storage[task_id] = rec
StorageSet(storage, task_id, rec) ==
    [k \in DOMAIN storage \cup {task_id} |-> IF k = task_id THEN rec ELSE storage[k]]

\* webhook_callback's result: the response and the registry it leaves
Outcome(code, kind, task, storage) ==
    [code |-> code, kind |-> kind, task |-> task, storage |-> storage]

\* a slip in the response.completed branch: the status is written before the
\* payload's output is read
CompletedEventEager(payload, task_id) ==
    LET output == DictGet(payload, "output", PyDict(<<>>))
    IN  IF ~HasGet(output) THEN
            Outcome(500, "exception", task_id,
                    StorageUpdate(task_storage, task_id, [status |-> "completed"]))
        ELSE
            Outcome(200, "completed", task_id,
                    StorageUpdate(task_storage, task_id,
                        CompletedUpdate(DictGet(output, "text", PyStr(<<>>)))))

\* the response.completed branch, for a payload that is a dict and a task_id
\* that is a key of the registry
CompletedEvent(payload, task_id) ==
    LET output == DictGet(payload, "output", PyDict(<<>>))
    IN  IF ~HasGet(output) THEN
            \* None.get raises AttributeError before anything is written
            Outcome(500, "exception", task_id, task_storage)
        ELSE
            Outcome(200, "completed", task_id,
                    StorageUpdate(task_storage, task_id,
                        CompletedUpdate(DictGet(output, "text", PyStr(<<>>)))))

\* the response.failed branch
FailedEvent(payload, task_id) ==
    LET error == DictGet(payload, "error", PyDict(<<>>))
    IN  IF ~HasGet(error) THEN
            Outcome(500, "exception", task_id, task_storage)
        ELSE
            Outcome(200, "failed", task_id,
                    StorageUpdate(task_storage, task_id,
                        FailedUpdate(DictGet(error, "message", PyStr(UnknownError)))))

\* a slip in the dispatch: an `else` instead of the second `elif`, so that
\* every event that is not response.completed is handled as a failure
OtherEventAsFailure(payload, task_id) == FailedEvent(payload, task_id)

\* any other event type: neither branch is taken
OtherEvent(payload, task_id) == Outcome(200, "ignored", task_id, task_storage)

\* webhook_callback from "Handle different webhook event types" on
HandleEvent(payload, task_id) ==
    LET event_type == DictGet(payload, "type", PyStr(<<>>))
    IN  IF event_type = PyStr(ResponseCompleted) THEN CompletedEvent(payload, task_id)
        ELSE IF event_type = PyStr(ResponseFailed) THEN FailedEvent(payload, task_id)
        ELSE OtherEvent(payload, task_id)

\* webhook_callback(request) with the request's body and X-OpenAI-Signature
WebhookOutcome(body, signature) ==
    IF ~VerifyWebhookSignature(body, signature) THEN
        Outcome(401, "bad_signature", <<>>, task_storage)
    ELSE
        LET payload == ParseWebhookPayload(body)
        IN  IF ~Truthy(payload) THEN
                Outcome(400, "bad_payload", <<>>, task_storage)
            ELSE IF ~HasGet(payload) THEN
                \* payload.get raises AttributeError
                Outcome(500, "exception", <<>>, task_storage)
            ELSE
                LET task_id == DictGet(payload, "id", PyNone)
                IN  IF ~Truthy(task_id) THEN
                        Outcome(404, "not_found", <<>>, task_storage)
                    ELSE IF ~Hashable(task_id) THEN
                        \* `task_id not in task_storage` raises TypeError
                        Outcome(500, "exception", <<>>, task_storage)
                    ELSE IF ~(task_id.t = "str" /\ task_id.v \in DOMAIN task_storage) THEN
                        Outcome(404, "not_found", <<>>, task_storage)
                    ELSE HandleEvent(payload, task_id.v)

\* POST /api/webhook
WebhookCallback(body, signature) ==
    LET o == WebhookOutcome(body, signature)
    IN  /\ o.code = 200 => nhooks < MaxWebhooks
        /\ nhooks' = IF o.code = 200 THEN nhooks + 1 ELSE nhooks
        /\ task_storage' = o.storage
        /\ last' = Reply("webhook_callback", o.code, o.kind, o.task)
        /\ UNCHANGED <<api_key, webhook_secret, pyhash, inflight, sims, now, nsub, api_calls,
                       polling, accepted, scheduled>>

\* a slip: the form field is taken as it comes
FormPromptUnstripped(form) == form

\* prompt = form_data.get("prompt", "").strip()
FormPrompt(form) == Strip(form)

\* POST /api/queue, up to `await ...chat.completions.create(...)`
QueueTaskBegin(form, base) ==
    LET prompt == FormPrompt(form)
        webhook_url == WebhookUrl(base)
    IN  IF prompt = <<>> THEN
            /\ last' = Reply("queue_task", 200, "error_prompt", <<>>)
            /\ UNCHANGED <<api_key, webhook_secret, pyhash, task_storage, inflight,
                           sims, now, nsub, api_calls, nhooks, polling, accepted, scheduled>>
        ELSE IF ~EnsureClientOk THEN
            \* ValueError, re-raised by create_background_response, caught by queue_task
            /\ last' = Reply("queue_task", 200, "error_exception", <<>>)
            /\ UNCHANGED <<api_key, webhook_secret, pyhash, task_storage, inflight,
                           sims, now, nsub, api_calls, nhooks, polling, accepted, scheduled>>
        ELSE
            /\ nsub < MaxSubmissions
            /\ nsub' = nsub + 1
            /\ api_calls' = api_calls + 1
            /\ inflight' = inflight \cup
                   {[n |-> nsub + 1, form |-> form, prompt |-> prompt, webhook_url |-> webhook_url]}
            /\ last' = Reply("queue_task", 0, "awaiting", <<>>)
            /\ UNCHANGED <<api_key, webhook_secret, pyhash, task_storage, sims, now, nhooks,
                           polling, accepted, scheduled>>

\* a slip: the record is stored but the delayed coroutine is never created
QueueTaskStoreNoTask(c, content) ==
    LET task_id == ResponseId(c.prompt, c.webhook_url)
    IN  /\ c \in inflight
        /\ inflight' = inflight \ {c}
        /\ task_storage' =
               StorageSet(task_storage, task_id, InitialRecord(task_id, c.prompt, c.webhook_url))
        /\ accepted' = accepted + 1
        /\ polling' = polling \cup {task_id}
        /\ last' = Reply("queue_task", 200, "queued", task_id)
        /\ UNCHANGED <<api_key, webhook_secret, pyhash, sims, now, nsub, api_calls, nhooks,
                       scheduled>>

\* POST /api/queue, from the upstream call's return on: the call returned
\* `content`, so the record is stored and the delayed coroutine created
QueueTaskStore(c, content) ==
    LET task_id == ResponseId(c.prompt, c.webhook_url)
    IN  /\ c \in inflight
        /\ inflight' = inflight \ {c}
        /\ task_storage' =
               StorageSet(task_storage, task_id, InitialRecord(task_id, c.prompt, c.webhook_url))
        /\ accepted' = accepted + 1
        \* asyncio.create_task(simulate_webhook_callback(task_id, response["content"]))
        /\ sims' = Append(sims, [task_id |-> task_id, content |-> content,
                                 wake |-> now + SleepSeconds])
        /\ scheduled' = scheduled + 1
        \* the response carries a polling element for /api/status/{task_id}
        /\ polling' = polling \cup {task_id}
        /\ last' = Reply("queue_task", 200, "queued", task_id)
        /\ UNCHANGED <<api_key, webhook_secret, pyhash, now, nsub, api_calls, nhooks>>

\* a slip: the failed upstream call is made again
QueueTaskFailRetries(c) ==
    /\ c \in inflight
    /\ api_calls' = api_calls + 1
    /\ last' = Reply("queue_task", 0, "awaiting", <<>>)
    /\ UNCHANGED <<api_key, webhook_secret, pyhash, task_storage, inflight, sims, now, nsub,
                   nhooks, polling, accepted, scheduled>>

\* POST /api/queue, from the upstream call on: the call (or reading its
\* choices) raised, create_background_response re-raises, queue_task answers
\* with the error
QueueTaskFail(c) ==
    /\ c \in inflight
    /\ inflight' = inflight \ {c}
    /\ last' = Reply("queue_task", 200, "error_exception", <<>>)
    /\ UNCHANGED <<api_key, webhook_secret, pyhash, task_storage, sims, now, nsub, api_calls,
                   nhooks, polling, accepted, scheduled>>

\* simulate_webhook_callback after its sleep: timers fire in the order of their
\* deadlines, which is the order the coroutines were created in
SimulateWebhookCallback ==
    /\ sims # <<>>
    /\ now >= Head(sims).wake
    /\ LET task_id == Head(sims).task_id
       IN  /\ task_storage' =
                  IF task_id \in DOMAIN task_storage
                  THEN StorageUpdate(task_storage, task_id, SimulatedUpdate(Head(sims).content))
                  ELSE task_storage
           /\ last' = Reply("simulate_webhook_callback", 0,
                            IF task_id \in DOMAIN task_storage THEN "completed" ELSE "missing",
                            task_id)
    /\ sims' = Tail(sims)
    /\ UNCHANGED <<api_key, webhook_secret, pyhash, inflight, now, nsub, api_calls, nhooks,
                   polling, accepted, scheduled>>

\* GET /api/status/{task_id}: which branch answers
StatusKind(task_id) ==
    IF task_id \notin DOMAIN task_storage THEN "not_found"
    ELSE IF task_storage[task_id].status \in {"processing", "completed", "failed"}
         THEN task_storage[task_id].status
         ELSE "unknown"

\* a slip: the failed branch keeps the polling attributes
StatusResponsePollsFailed(task_id) ==
    LET kind == StatusKind(task_id)
    IN  [kind |-> kind, polling |-> kind \in {"processing", "failed"}]

\* a slip: a task that is not in the registry is reported as still running
StatusResponseMissingRuns(task_id) ==
    LET kind == StatusKind(task_id)
    IN  [kind |-> IF kind = "not_found" THEN "processing" ELSE kind,
         polling |-> kind \in {"processing", "not_found"}]

\* the Div get_task_status returns: its branch, and whether it carries the
\* hx_get / hx_trigger="every 2s" attributes
StatusResponse(task_id) ==
    LET kind == StatusKind(task_id)
    IN  [kind |-> kind, polling |-> kind = "processing"]

\* GET /api/status/{task_id}, requested by anyone
GetTaskStatus(task_id) ==
    /\ last' = Reply("get_task_status", 200, StatusResponse(task_id).kind, task_id)
    /\ UNCHANGED <<api_key, webhook_secret, pyhash, task_storage, inflight, sims, now,
                   nsub, api_calls, nhooks, polling, accepted, scheduled>>

\* GET /api/status/{task_id}, requested by a polling element: the response
\* replaces the element (hx_swap="outerHTML"), so polling goes on exactly when
\* the response carries the polling attributes
PollTaskStatus(task_id) ==
    /\ task_id \in polling
    /\ polling' = IF StatusResponse(task_id).polling THEN polling ELSE polling \ {task_id}
    /\ last' = Reply("poll_task_status", 200, StatusResponse(task_id).kind, task_id)
    /\ UNCHANGED <<api_key, webhook_secret, pyhash, task_storage, inflight, sims, now,
                   nsub, api_calls, nhooks, accepted, scheduled>>

\* the event loop's clock advances: to the deadline of the nearest timer when
\* one is pending (the idle loop sleeps until then), by one second otherwise
Tick ==
    /\ now < MaxTime \/ (sims # <<>> /\ now < Head(sims).wake)
    /\ now' = IF sims # <<>> /\ now < Head(sims).wake THEN Head(sims).wake ELSE now + 1
    /\ last' = Reply("tick", 0, "tick", <<>>)
    /\ UNCHANGED <<api_key, webhook_secret, pyhash, task_storage, inflight, sims,
                   nsub, api_calls, nhooks, polling, accepted, scheduled>>

----------------------------------------------------------------------------

Init ==
    /\ api_key \in {PyNone, PyStr(<<"a">>)}
    /\ webhook_secret \in {PyNone, PyStr(<<>>), PyStr(<<"k">>)}
    /\ pyhash \in HashFunctions
    /\ task_storage = <<>>
    /\ inflight = {}
    /\ sims = <<>>
    /\ now = 0
    /\ nsub = 0
    /\ api_calls = 0
    /\ nhooks = 0
    /\ polling = {}
    /\ accepted = 0
    /\ scheduled = 0
    /\ last = Reply("init", 0, "init", <<>>)

Next ==
    \/ \E form \in Forms, base \in BaseUrls : QueueTaskBegin(form, base)
    \/ \E c \in inflight, content \in Contents : QueueTaskStore(c, content)
    \/ \E c \in inflight : QueueTaskFail(c)
    \/ SimulateWebhookCallback
    \/ \E body \in Bodies : WebhookCallback(body, Signed(body))
    \/ \E body \in ForgedBodies, how \in Forgeries : WebhookCallback(body, Forged(how, body))
    \/ \E task_id \in TaskIds : GetTaskStatus(task_id)
    \/ \E task_id \in polling : PollTaskStatus(task_id)
    \/ Tick

Spec == Init /\ [][Next]_vars

\* the delayed coroutines are scheduled fairly: the clock reaches every
\* deadline, and a coroutine whose deadline has passed is resumed; so are the
\* browsers' polling timers: a polling element sends its request
FairSpec ==
    /\ Spec
    /\ WF_vars(Tick)
    /\ WF_vars(SimulateWebhookCallback)
    /\ \A task_id \in GeneratedIds : WF_vars(PollTaskStatus(task_id))

----------------------------------------------------------------------------
(* Properties.                                                             *)

Terminal(status) == status \in {"completed", "failed"}

\* the step just taken was a webhook_callback / a queue_task that stored
WebhookStep == last'.op = "webhook_callback"
StoreStep == last'.op = "queue_task" /\ last'.kind = "queued"

\* a body that is a JSON object naming, as a string, a task id of the registry
NamesKnownTask(body) ==
    /\ body.enc = "json"
    /\ body.doc.t = "dict"
    /\ "id" \in DOMAIN body.doc.v
    /\ body.doc.v.id.t = "str"
    /\ body.doc.v.id.v \in DOMAIN task_storage

\* the signature header is the prefix and the HMAC of the body under the
\* configured secret
CorrectlySigned(body, signature) ==
    /\ webhook_secret.t = "str"
    /\ signature = Header(Sha256Prefix, HexDigest(webhook_secret.v, body))

\* the "type" of a JSON object body (PyStr(<<>>) when it has none)
EventType(body) == DictGet(body.doc, "type", PyStr(<<>>))

\* C1: once a record's status is completed or failed, no step changes it to a
\* different value.
C1_NoTransitionOutOfTerminal ==
    [][\A id \in DOMAIN task_storage :
          Terminal(task_storage[id].status)
              => /\ id \in DOMAIN task_storage'
                 /\ task_storage'[id].status = task_storage[id].status]_vars

\* C2: once a record is terminal, no step makes its status processing again.
C2_NeverProcessingAgain ==
    [][\A id \in DOMAIN task_storage :
          (Terminal(task_storage[id].status) /\ id \in DOMAIN task_storage')
              => task_storage'[id].status # "processing"]_vars

\* C3: the task id an accepted submission receives is not the id of an earlier
\* accepted submission: it is not yet a key of the registry, so no record is
\* overwritten.
C3_DistinctTaskIds ==
    [][StoreStep => last'.task \notin DOMAIN task_storage]_vars

\* the status codes C4 allows, in its order: 401, else 400, else 404, else 200.
\* Where the claim can be read two ways both answers are allowed: JSON that is
\* not an object either does not parse (400) or has no task id (404), and so
\* does the empty object.
C4_Allowed(body, signature) ==
    IF ~VerifyWebhookSignature(body, signature) THEN {401}
    ELSE IF body.enc # "json" THEN {400}
    ELSE IF body.doc.t # "dict" \/ body.doc.v = <<>> THEN {400, 404}
    ELSE IF ~NamesKnownTask(body) THEN {404}
    ELSE {200}

\* C4: webhook_callback answers 401 when the signature does not verify, else
\* 400 when the body does not parse, else 404 when the task id is missing or
\* unknown, else 200.
C4_ResponseOrder ==
    [][WebhookStep =>
          /\ \A body \in Bodies :
                WebhookCallback(body, Signed(body))
                    => last'.code \in C4_Allowed(body, Signed(body))
          /\ \A body \in ForgedBodies, how \in Forgeries :
                WebhookCallback(body, Forged(how, body))
                    => last'.code \in C4_Allowed(body, Forged(how, body))]_vars

\* C5: a webhook_callback that answers 401, 400, 404 or 500 leaves the registry
\* as it was; and a request whose signature does not verify is answered 401
\* with the registry as it was.
C5_ErrorsLeaveRegistry ==
    /\ [][(WebhookStep /\ last'.code \in {401, 400, 404, 500})
              => task_storage' = task_storage]_vars
    /\ [](\A body \in ForgedBodies, how \in Forgeries :
              ~VerifyWebhookSignature(body, Forged(how, body))
                  => /\ WebhookOutcome(body, Forged(how, body)).code = 401
                     /\ WebhookOutcome(body, Forged(how, body)).storage = task_storage)

\* a webhook was answered 500 while working on a task of the registry
C5_Witness ==
    /\ last.op = "webhook_callback"
    /\ last.code = 500
    /\ last.task \in DOMAIN task_storage
    /\ task_storage[last.task].status = "processing"

\* the bodies C6 is about: type response.failed with an error.message
C6_Bodies ==
    {b \in Bodies :
        /\ b.enc = "json" /\ b.doc.t = "dict"
        /\ EventType(b) = PyStr(ResponseFailed)
        /\ "error" \in DOMAIN b.doc.v
        /\ b.doc.v.error.t = "dict"
        /\ "message" \in DOMAIN b.doc.v.error.v}

\* C6: a correctly signed response.failed webhook with error.message = m for a
\* known task id sets status to failed and error to m, and leaves output as it
\* was.
C6_FailedWebhook ==
    [][WebhookStep =>
          \A body \in C6_Bodies :
              (/\ NamesKnownTask(body)
               /\ CorrectlySigned(body, Signed(body))
               /\ WebhookCallback(body, Signed(body)))
                  => LET id == body.doc.v.id.v
                     IN  /\ task_storage'[id].status = "failed"
                         /\ task_storage'[id].error = body.doc.v.error.v.message
                         /\ task_storage'[id].output = task_storage[id].output]_vars

\* a response.failed webhook has acted on a record that already had an output
C6_Witness ==
    /\ last.op = "webhook_callback"
    /\ last.kind = "failed"
    /\ last.task \in DOMAIN task_storage
    /\ task_storage[last.task].status = "failed"
    /\ task_storage[last.task].error = PyStr(<<"m">>)
    /\ task_storage[last.task].output # PyNone

\* the bodies C7 is about: type response.completed
C7_Bodies ==
    {b \in Bodies :
        /\ b.enc = "json" /\ b.doc.t = "dict"
        /\ EventType(b) = PyStr(ResponseCompleted)}

\* payload's output.text, the empty string when output or output.text is absent
C7_Text(body) ==
    LET d == body.doc.v
    IN  IF "output" \in DOMAIN d /\ d.output.t = "dict" /\ "text" \in DOMAIN d.output.v
        THEN d.output.v.text
        ELSE PyStr(<<>>)

C7_OutputWellShaped(body) ==
    "output" \in DOMAIN body.doc.v => body.doc.v.output.t = "dict"

C8_Bodies ==
    {b \in Bodies :
        /\ b.enc = "json" /\ b.doc.t = "dict"
        /\ EventType(b) \notin {PyStr(ResponseCompleted), PyStr(ResponseFailed)}}

\* C8: a correctly signed webhook for a known task id whose type is neither
\* response.completed nor response.failed is answered 200 and leaves the
\* registry unchanged.
C8_UnrecognisedEvent ==
    [][WebhookStep =>
          \A body \in C8_Bodies :
              (/\ NamesKnownTask(body)
               /\ CorrectlySigned(body, Signed(body))
               /\ WebhookCallback(body, Signed(body)))
                  => /\ last'.code = 200
                     /\ task_storage' = task_storage]_vars

\* a webhook with an unrecognised type was answered 200 for a known task
C8_Witness ==
    /\ last.op = "webhook_callback"
    /\ last.code = 200
    /\ last.kind = "ignored"
    /\ last.task \in DOMAIN task_storage

\* C9: right after queue_task stores, the registry holds under the returned id
\* a record with status processing, output None, no error field and the
\* stripped prompt.
C9_StoredRecord ==
    [][StoreStep =>
          \A c \in inflight, content \in Contents :
              QueueTaskStore(c, content)
                  => LET id == last'.task
                     IN  /\ id \in DOMAIN task_storage'
                         /\ task_storage'[id].status = "processing"
                         /\ task_storage'[id].output = PyNone
                         /\ "error" \notin DOMAIN task_storage'[id]
                         /\ task_storage'[id].prompt = Strip(c.form)
                         /\ task_storage'[id].prompt # <<>>]_vars

\* queue_task has just stored the record of a prompt submitted with blanks
C9_Witness ==
    /\ last.op = "queue_task"
    /\ last.kind = "queued"
    /\ last.task \in DOMAIN task_storage
    /\ task_storage[last.task].status = "processing"
    /\ task_storage[last.task].prompt = <<"p">>

\* C10: under fair scheduling every record is eventually completed or failed
\* for good.
C10_EventuallyTerminal ==
    \A id \in TaskIds :
        [](id \in DOMAIN task_storage
              => <>[](id \in DOMAIN task_storage /\ Terminal(task_storage[id].status)))

\* every submission was accepted, every coroutine has run, every record is
\* terminal
C10_Witness ==
    /\ nsub = MaxSubmissions
    /\ inflight = {}
    /\ sims = <<>>
    /\ task_storage # <<>>
    /\ \A id \in DOMAIN task_storage : Terminal(task_storage[id].status)

\* the step just taken was a delayed coroutine waking up
SimulatedStep == last'.op = "simulate_webhook_callback"

\* C11: when the delay of an accepted submission has elapsed and its coroutine
\* runs, the record under its task id has status completed and, as output,
\* the text the upstream call returned to that submission, whatever other
\* submissions (also of the same prompt) are still waiting.
C11_SimulatedOutput ==
    [][SimulatedStep =>
          LET own == Head(sims)
          IN  /\ now >= own.wake
              /\ own.task_id \in DOMAIN task_storage'
              /\ task_storage'[own.task_id].status = "completed"
              /\ task_storage'[own.task_id].output = own.content
              /\ own.content \in Contents]_vars

\* a coroutine has completed a record with its own text while the coroutine
\* of a second submission of the same prompt, which got another text, waits
C11_Witness ==
    /\ last.op = "simulate_webhook_callback"
    /\ last.task \in DOMAIN task_storage
    /\ task_storage[last.task].status = "completed"
    /\ sims # <<>>
    /\ Head(sims).task_id = last.task
    /\ Head(sims).content # task_storage[last.task].output

\* C12: a record is changed once after its creation, by the delayed coroutine
\* or by a webhook, whichever comes first: a coroutine or webhook that comes
\* when the record is already completed or failed changes none of its fields.
C12_MutatedOnce ==
    [][(SimulatedStep \/ WebhookStep) =>
          \A id \in DOMAIN task_storage :
              Terminal(task_storage[id].status)
                  => /\ id \in DOMAIN task_storage'
                     /\ task_storage'[id] = task_storage[id]]_vars

\* the header values a request with this body is tried with
SignaturesFor(body) == {Signed(body)} \cup {Forged(how, body) : how \in Forgeries}

\* the shared secret is not configured, as _ensure_client tests it
\* (`not self.webhook_secret`): unset, or set to the empty string
SecretMissing == ~Truthy(webhook_secret)

\* C13: verify_webhook_signature is False for every input whose signature is
\* empty, whose payload is empty or whose signature does not start with
\* "sha256=", and for every input when the shared secret is not configured;
\* so every such request is answered 401.
C13_VerifyRejects ==
    /\ [](\A body \in Bodies :
              \A signature \in SignaturesFor(body) :
                  (\/ signature = NoHeader
                   \/ body = EmptyBody
                   \/ ~StartsWith(signature.text, Sha256Prefix)
                   \/ SecretMissing)
                      => ~VerifyWebhookSignature(body, signature))
    /\ [][(WebhookStep /\ SecretMissing) => last'.code = 401]_vars

\* hex digests a sender may put after the prefix for this payload: made with
\* the configured secret, with the empty key or with another key, over this
\* payload or over another one
C14_Digests(payload) ==
    {HexDigest(key, msg) :
        key \in {webhook_secret.v, <<>>, OtherKey},
        msg \in {payload, EmptyBody, NonJsonBody}}

\* C14: with a configured secret and a non-empty payload,
\* verify_webhook_signature is True for "sha256=" followed by the hex HMAC of
\* the payload under the secret, and False for "sha256=" followed by any other
\* digest.
C14_VerifyExact ==
    Truthy(webhook_secret) =>
        \A payload \in Bodies \ {EmptyBody} :
            /\ VerifyWebhookSignature(payload,
                    Header(Sha256Prefix, HexDigest(webhook_secret.v, payload)))
            /\ \A digest \in C14_Digests(payload) :
                   digest # HexDigest(webhook_secret.v, payload)
                       => ~VerifyWebhookSignature(payload, Header(Sha256Prefix, digest))

\* with a configured secret, a webhook signed with it was let through and one
\* signed with another key was turned away
C14_Witness ==
    /\ Truthy(webhook_secret)
    /\ last.op = "webhook_callback"
    /\ last.code = 200
    /\ last.kind = "completed"
    /\ VerifyWebhookSignature(NonJsonBody, Signed(NonJsonBody))
    /\ ~VerifyWebhookSignature(NonJsonBody, Forged("other_key", NonJsonBody))

\* the bodies C15 is about: bytes that are not UTF-8, text that is not JSON, and
\* JSON that is not an object
C15_Bodies ==
    {b \in Bodies \ {EmptyBody} : b.enc # "json" \/ b.doc.t # "dict"}

\* C15: for a payload that is not valid UTF-8 or is not a JSON object,
\* parse_webhook_payload returns the invalid result, which is None or at least
\* passes for it in the caller's `if not payload` test; and a correctly signed
\* webhook with such a body is answered 400.
C15_ParseRejects ==
    /\ [](\A body \in C15_Bodies : ~Truthy(ParseWebhookPayload(body)))
    /\ [][WebhookStep =>
              \A body \in C15_Bodies :
                  (CorrectlySigned(body, Signed(body)) /\ WebhookCallback(body, Signed(body)))
                      => last'.code = 400]_vars

\* the step just taken was a queue_task running up to its first return or await
SubmitStep == last'.op = "queue_task" /\ last'.kind \in {"error_prompt", "error_exception", "awaiting"}

\* nothing of what queue_task does for an accepted prompt has happened
NoSubmissionEffect ==
    /\ api_calls' = api_calls
    /\ inflight' = inflight
    /\ task_storage' = task_storage
    /\ sims' = sims
    /\ polling' = polling
    /\ accepted' = accepted
    /\ scheduled' = scheduled

\* the form fields that hold no prompt: empty, or white space only
C16_BlankForms == {f \in Forms : \A i \in 1..Len(f) : IsSpace(f[i])}

\* C16: a submission whose prompt is empty or white space only is answered
\* with the inline prompt error, a page fragment and not an HTTP error; no
\* upstream call is made, the registry is left as it was and no delayed
\* coroutine is created.
C16_BlankPromptRejected ==
    [][SubmitStep =>
          \A form \in C16_BlankForms, base \in BaseUrls :
              QueueTaskBegin(form, base)
                  => /\ last'.kind = "error_prompt"
                     /\ last'.code = 200
                     /\ NoSubmissionEffect]_vars

\* a blank prompt was turned away while an accepted submission was stored and
\* its coroutine waiting
C16_Witness ==
    /\ last.op = "queue_task"
    /\ last.kind = "error_prompt"
    /\ task_storage # <<>>
    /\ sims # <<>>
    /\ api_calls > 0

\* a required credential is absent: unset, or set to the empty string
CredentialMissing == ~Truthy(api_key) \/ SecretMissing

C18_UpstreamFailure ==
    /\ [][\A c \in inflight :
              QueueTaskFail(c)
                  => /\ last'.op = "queue_task"
                     /\ last'.kind = "error_exception"
                     /\ c \notin inflight'
                     /\ api_calls' = api_calls
                     /\ task_storage' = task_storage
                     /\ sims' = sims
                     /\ polling' = polling]_vars
    /\ [](api_calls = nsub)

\* with both credentials set the only upstream call made has failed, and
\* nothing was stored or scheduled
C18_Witness ==
    /\ EnsureClientOk
    /\ last.op = "queue_task"
    /\ last.kind = "error_exception"
    /\ api_calls = 1
    /\ inflight = {}
    /\ task_storage = <<>>
    /\ sims = <<>>

\* the step just taken was a status request, from anyone or from a poller
StatusStep == last'.op \in {"get_task_status", "poll_task_status"}

\* what a lookup of the registry gives for this id
C19_Lookup(task_id) ==
    IF task_id \in DOMAIN task_storage THEN task_storage[task_id].status ELSE "not_found"

\* C19: get_task_status never changes the registry; it reports not-found for
\* an id that is not in the registry and the record's status otherwise; the
\* answer to a status request is the same before and after every step that
\* does not write the registry, so two requests for one id with no write
\* between them are answered alike.
C19_PureLookup ==
    /\ [][StatusStep =>
              /\ task_storage' = task_storage
              /\ last'.kind = C19_Lookup(last'.task)
              /\ last'.task \notin DOMAIN task_storage => last'.kind = "not_found"]_vars
    /\ [][task_storage' = task_storage
              => \A task_id \in TaskIds : StatusResponse(task_id)' = StatusResponse(task_id)]_vars
    /\ [][(StatusStep /\ last.op \in {"get_task_status", "poll_task_status"}
                      /\ last'.task = last.task)
              => last'.kind = last.kind]_vars

\* a status request was answered for a failed record whose poller has already
\* seen the failure and stopped
C19_Witness ==
    /\ last.op = "get_task_status"
    /\ last.task \in DOMAIN task_storage
    /\ last.task \notin polling
    /\ last.kind = "failed"
    /\ task_storage[last.task].status = "failed"

\* the record under this id is still being processed
C20_Processing(task_id) ==
    task_id \in DOMAIN task_storage /\ task_storage[task_id].status = "processing"

\* C20: the status response carries the polling attributes exactly when the
\* record's status is processing, and not for completed, failed or not-found;
\* so a poller goes on after a response exactly when the record is processing,
\* stops at the first response that sees a terminal status, and, the timers
\* being served fairly, every poller stops in the end.
C20_PollingStops ==
    /\ [](\A task_id \in TaskIds :
              StatusResponse(task_id).polling <=> C20_Processing(task_id))
    /\ [][\A task_id \in polling :
              PollTaskStatus(task_id)
                  => /\ task_id \in polling' <=> C20_Processing(task_id)
                     /\ last'.kind \in {"completed", "failed", "not_found"}
                            => task_id \notin polling']_vars
    /\ \A task_id \in GeneratedIds :
           (task_id \in polling) ~> (task_id \notin polling)

\* a poller has just seen its record completed and has stopped
C20_Witness ==
    /\ last.op = "poll_task_status"
    /\ last.kind = "completed"
    /\ last.task \in DOMAIN task_storage
    /\ task_storage[last.task].status = "completed"
    /\ last.task \notin polling

\* C21: a submission whose upstream call has returned is accepted whatever is
\* already outstanding, and creates exactly one delayed coroutine, for its own
\* task id; a submission that is rejected or fails creates none; the number of
\* coroutines ever created equals the number of accepted submissions.
C21_OneTaskPerSubmission ==
    /\ [](scheduled = accepted)
    /\ [](\A c \in inflight, content \in Contents : ENABLED QueueTaskStore(c, content))
    /\ [][StoreStep =>
              /\ accepted' = accepted + 1
              /\ scheduled' = scheduled + 1
              /\ Len(sims') = Len(sims) + 1
              /\ SubSeq(sims', 1, Len(sims)) = sims
              /\ sims'[Len(sims')].task_id = last'.task]_vars
    /\ [][(last'.op = "queue_task" /\ last'.kind # "queued")
              => /\ accepted' = accepted
                 /\ scheduled' = scheduled
                 /\ sims' = sims]_vars
    /\ [][Len(sims') > Len(sims) => StoreStep]_vars

\* a second submission was accepted while the record of the first was still
\* processing and its coroutine asleep: two coroutines are waiting
C21_Witness ==
    /\ last.op = "queue_task"
    /\ last.kind = "queued"
    /\ accepted = 2
    /\ scheduled = 2
    /\ Len(sims) = 2
    /\ sims[1].task_id # sims[2].task_id
    /\ task_storage[sims[1].task_id].status = "processing"

\* C22: no step removes a record, so the set of task ids of the registry only
\* grows; and a task id that is in the registry is not answered not-found by a
\* status request nor 404 by a correctly signed webhook that names it.
C22_NoRemoval ==
    /\ [][DOMAIN task_storage \subseteq DOMAIN task_storage']_vars
    /\ [][(StatusStep /\ last'.task \in DOMAIN task_storage)
              => last'.kind # "not_found"]_vars
    /\ [](\A body \in Bodies :
              (NamesKnownTask(body) /\ CorrectlySigned(body, Signed(body)))
                  => WebhookOutcome(body, Signed(body)).code # 404)

\* the registry holds two records, and a status request for the one stored
\* first, in the meantime completed, has been answered
C22_Witness ==
    /\ Cardinality(DOMAIN task_storage) = 2
    /\ last.op = "get_task_status"
    /\ last.kind = "completed"
    /\ last.task \in DOMAIN task_storage
    /\ \E other \in DOMAIN task_storage :
           /\ other # last.task
           /\ task_storage[other].created_at > task_storage[last.task].created_at

\* the step just taken was a signal that wrote: a delayed coroutine that found
\* its record, or a webhook handled by the completed or the failed branch
SignalStep ==
    \/ SimulatedStep /\ last'.kind = "completed"
    \/ WebhookStep /\ last'.code = 200 /\ last'.kind \in {"completed", "failed"}

\* the fields the signal just taken writes
WrittenFields ==
    IF last'.kind = "failed" THEN {"status", "error", "completed_at"}
    ELSE {"status", "output", "completed_at"}

\* C23: in simulate_webhook_callback and in webhook_callback the membership
\* test and the update are one step: the update goes to a record that is in
\* the registry at that step and is applied to the record as it is then, so
\* that nothing another handler wrote before is lost; a signal for an id that
\* is not in the registry writes nothing, and no signal creates a record.
C23_CheckAndWriteAtomic ==
    /\ [][SignalStep =>
              LET id == last'.task
              IN  /\ id \in DOMAIN task_storage
                  /\ task_storage'[id].status = last'.kind
                  /\ task_storage'[id].completed_at = now
                  /\ task_storage'[id] =
                         DictUpdate(task_storage[id],
                                    [k \in WrittenFields |-> task_storage'[id][k]])]_vars
    /\ [][(SimulatedStep \/ WebhookStep) => DOMAIN task_storage' = DOMAIN task_storage]_vars
    /\ [][((SimulatedStep \/ WebhookStep) /\ ~SignalStep) => task_storage' = task_storage]_vars

\* a delayed coroutine has completed a record that a webhook had marked failed
\* while the coroutine slept: the error the webhook wrote is still there
C23_Witness ==
    /\ last.op = "simulate_webhook_callback"
    /\ last.kind = "completed"
    /\ last.task \in DOMAIN task_storage
    /\ task_storage[last.task].status = "completed"
    /\ "error" \in DOMAIN task_storage[last.task]

\* C24: a completion or failure signal for task id t leaves every other record
\* as it was and leaves t's id, prompt, created_at and webhook_url as they
\* were; it writes status, completed_at and one of output and error only.
C24_SignalFrame ==
    [][SignalStep =>
          LET t == last'.task
          IN  /\ \A id \in DOMAIN task_storage :
                     id # t => (id \in DOMAIN task_storage' /\ task_storage'[id] = task_storage[id])
              /\ \A k \in {"id", "prompt", "created_at", "webhook_url"} :
                     /\ k \in DOMAIN task_storage'[t]
                     /\ task_storage'[t][k] = task_storage[t][k]
              /\ \A k \in DOMAIN task_storage'[t] \ WrittenFields :
                     /\ k \in DOMAIN task_storage[t]
                     /\ task_storage'[t][k] = task_storage[t][k]
              /\ DOMAIN task_storage[t] \subseteq DOMAIN task_storage'[t]]_vars

\* a webhook has failed one of two records; the other is still processing
C24_Witness ==
    /\ last.op = "webhook_callback"
    /\ last.kind = "failed"
    /\ last.task \in DOMAIN task_storage
    /\ \E other \in DOMAIN task_storage :
           /\ other # last.task
           /\ task_storage[other].status = "processing"

\* C25: in every reachable state every record's status is processing,
\* completed or failed, and the record stored under key k has the id k; so no
\* status request is answered by the unknown-status branch.
C25_StatusAndId ==
    /\ \A k \in DOMAIN task_storage :
           /\ task_storage[k].status \in {"processing", "completed", "failed"}
           /\ task_storage[k].id = k
           /\ StatusKind(k) # "unknown"
    /\ last.kind # "unknown"

\* the registry holds a processing, or a completed, and a failed record, and
\* a status request has just been answered
C25_Witness ==
    /\ last.op \in {"get_task_status", "poll_task_status"}
    /\ last.task \in DOMAIN task_storage
    /\ Cardinality({task_storage[k].status : k \in DOMAIN task_storage}) = 2
    /\ \E k \in DOMAIN task_storage : task_storage[k].status = "failed"

\* C26: in every reachable state, for every record: the status is processing
\* exactly when the record has no completed_at; a processing record has
\* output None and no error; a failed record has an error.
C26_RecordShape ==
    \A k \in DOMAIN task_storage :
        LET rec == task_storage[k]
        IN  /\ rec.status = "processing" <=> "completed_at" \notin DOMAIN rec
            /\ rec.status = "processing" => (rec.output = PyNone /\ "error" \notin DOMAIN rec)
            /\ rec.status = "failed" => "error" \in DOMAIN rec

\* a record that a webhook had acted on was stored anew by a second submission
\* of its prompt: it is processing, without completed_at
C26_Witness ==
    /\ last.op = "queue_task"
    /\ last.kind = "queued"
    /\ accepted = 2
    /\ Cardinality(DOMAIN task_storage) = 1
    /\ nhooks = 1
    /\ sims # <<>>
    /\ \A k \in DOMAIN task_storage :
           /\ task_storage[k].status = "processing"
           /\ "completed_at" \notin DOMAIN task_storage[k]

====
